---------------------------- MODULE Spec2Model ----------------------------
(***************************************************************************)
(* Model of stock_analyzer_full.py: the retry-aware fetcher, the nine-     *)
(* criterion scoring engine, the capped history log and the monthly        *)
(* ranking.                                                                *)
(*                                                                         *)
(* Numbers.  A Python value that may be None is a tuple: <<>> is None and  *)
(* <<n>> is the number n.  Ratios (revenueGrowth, returnOnEquity,          *)
(* payoutRatio) are in thousandths, so 0.05 is 50; EPS is in hundredths;   *)
(* amounts of money are in units of 1e9; debtToEquity and dividendRate are *)
(* in their own units.                                                     *)
(***************************************************************************)
EXTENDS Integers, Sequences, FiniteSets, TLC

VARIABLES
    clock,          \* datetime.now(), in ticks since the start of year 0
    history,        \* contents of HISTORY_FILE (<<>> when the file is absent)
    rankings,       \* contents of RANKING_FILE: month key -> list of entries
    data,           \* the bundle handed to calculate_comprehensive_score
    result,         \* what calculate_comprehensive_score returned last
    fetched,        \* what the last fetch_stock_data call did
    log,            \* history variable: every entry saved, with its bucket
    torn,           \* the store files a failed write left cut short
    pc              \* position of the request being served

vars == <<clock, history, rankings, data, result, fetched, log, torn, pc>>

----------------------------------------------------------------------------
(* Python values *)

NoneVal == <<>>

Num(n) == <<n>>

\* Python truthiness of a number-or-None: None and 0 are falsy.
Truthy(x) == x # NoneVal /\ x[1] # 0

\* dict.get(key, None)
Get(d, k) == IF k \in DOMAIN d THEN d[k] ELSE NoneVal

EmptyDict == [k \in {} |-> NoneVal]

\* Python truthiness of a dict-or-None: None and {} are falsy.
DictTruthy(d) == DOMAIN d # {}

----------------------------------------------------------------------------
(* Scoring engine: StockAnalyzer.calculate_comprehensive_score *)

RevenuePassOver == 50      \* revenue_growth > 0.05
RoePassOver == 70          \* roe > 0.07
DebtPassUnder == 100       \* debt_to_equity < 100
PayoutPassUpTo == 400      \* payout_ratio <= 0.40
NeutralScore == 50         \* score returned when there is no info

Detail(points, label) == [score |-> points, status |-> label]

\* ScoreRevenue with a PASS tier worth 25 points
ScoreRevenue_Heavy(info) ==
    LET revenue_growth == Get(info, "revenueGrowth") IN
    IF Truthy(revenue_growth) /\ revenue_growth[1] > RevenuePassOver
        THEN Detail(25, "PASS")
    ELSE IF Truthy(revenue_growth) /\ revenue_growth[1] > 0
        THEN Detail(8, "PARTIAL")
    ELSE Detail(0, "FAIL")

\* 1. revenue
ScoreRevenue(info) ==
    LET revenue_growth == Get(info, "revenueGrowth") IN
    IF Truthy(revenue_growth) /\ revenue_growth[1] > RevenuePassOver
        THEN Detail(15, "PASS")
    ELSE IF Truthy(revenue_growth) /\ revenue_growth[1] > 0
        THEN Detail(8, "PARTIAL")
    ELSE Detail(0, "FAIL")

\* 2. eps
ScoreEps(info) ==
    LET eps == Get(info, "trailingEps")
        eps_forward == Get(info, "forwardEps") IN
    IF Truthy(eps) /\ Truthy(eps_forward) /\ eps_forward[1] > eps[1]
        THEN Detail(15, "PASS")
    ELSE IF Truthy(eps) /\ eps[1] > 0
        THEN Detail(8, "PARTIAL")
    ELSE Detail(0, "FAIL")

\* 3. assets, 4. operating_cf, 5. cash, 8. dividend: one field, positive or not
ScorePositive(info, field) ==
    LET v == Get(info, field) IN
    IF Truthy(v) /\ v[1] > 0 THEN Detail(10, "PASS") ELSE Detail(0, "FAIL")

\* ScoreRoe with the 7% threshold included in the PASS tier
ScoreRoe_AtThreshold(info) ==
    LET roe == Get(info, "returnOnEquity") IN
    IF Truthy(roe) /\ roe[1] >= RoePassOver THEN Detail(10, "PASS")
    ELSE IF Truthy(roe) /\ roe[1] > 0 THEN Detail(5, "PARTIAL")
    ELSE Detail(0, "FAIL")

\* 6. roe
ScoreRoe(info) ==
    LET roe == Get(info, "returnOnEquity") IN
    IF Truthy(roe) /\ roe[1] > RoePassOver THEN Detail(10, "PASS")
    ELSE IF Truthy(roe) /\ roe[1] > 0 THEN Detail(5, "PARTIAL")
    ELSE Detail(0, "FAIL")

\* 7. equity_ratio: tested with "is not None", so 0 counts as a value
ScoreEquityRatio(info) ==
    LET debt_to_equity == Get(info, "debtToEquity") IN
    IF debt_to_equity # NoneVal /\ debt_to_equity[1] < DebtPassUnder
        THEN Detail(10, "PASS")
    ELSE IF debt_to_equity # NoneVal THEN Detail(5, "PARTIAL")
    ELSE Detail(0, "FAIL")

\* 9. payout_ratio
ScorePayoutRatio(info) ==
    LET payout_ratio == Get(info, "payoutRatio") IN
    IF Truthy(payout_ratio) /\ payout_ratio[1] <= PayoutPassUpTo
        THEN Detail(10, "PASS")
    ELSE IF Truthy(payout_ratio) THEN Detail(5, "PARTIAL")
    ELSE Detail(0, "FAIL")

\* The keys of score_details, in insertion order.
CriteriaOrder ==
    << "revenue", "eps", "assets", "operating_cf", "cash",
       "roe", "equity_ratio", "dividend", "payout_ratio" >>

CriteriaKeys == { CriteriaOrder[i] : i \in DOMAIN CriteriaOrder }

ScoreCriterion(info, key) ==
    CASE key = "revenue"      -> ScoreRevenue(info)
      [] key = "eps"          -> ScoreEps(info)
      [] key = "assets"       -> ScorePositive(info, "totalAssets")
      [] key = "operating_cf" -> ScorePositive(info, "operatingCashflow")
      [] key = "cash"         -> ScorePositive(info, "totalCash")
      [] key = "roe"          -> ScoreRoe(info)
      [] key = "equity_ratio" -> ScoreEquityRatio(info)
      [] key = "dividend"     -> ScorePositive(info, "dividendRate")
      [] key = "payout_ratio" -> ScorePayoutRatio(info)

\* sum(item['score'] for item in score_details.values())
RECURSIVE SumScores(_, _)
SumScores(details, keys) ==
    IF keys = <<>> THEN 0
    ELSE details[Head(keys)].score + SumScores(details, Tail(keys))

\* the early return with a score of 0
NeutralResult_Zero(details) == [total |-> 0, details |-> details]

\* return 50, {'note': ...}
NeutralResult(details) == [total |-> NeutralScore, details |-> details]

NoteDetails == [k \in {"note"} |-> "no company info: standard score"]

\* The early return of line 142-143.
HasNoInfo(d) == ~DictTruthy(d) \/ ~DictTruthy(Get(d, "info"))

calculate_comprehensive_score(d) ==
    IF HasNoInfo(d)
        THEN NeutralResult(NoteDetails)
    ELSE LET score_details ==
                 [k \in CriteriaKeys |-> ScoreCriterion(d["info"], k)]
         IN  [total |-> SumScores(score_details, CriteriaOrder),
              details |-> score_details]

----------------------------------------------------------------------------
(* Fetcher: StockAnalyzer.fetch_stock_data *)

max_retries == 3
retry_delay == 2
CourtesyDelay == 1         \* time.sleep(1) around the provider calls

\* An exception message is the sequence of phrases it is made of; "x in msg"
\* holds when the phrase occurs in it (the match is case-sensitive).
Contains(msg, phrase) == \E i \in DOMAIN msg : msg[i] = phrase

IsRateLimit(error_msg) ==
    Contains(error_msg, "Too Many Requests") \/ Contains(error_msg, "Rate limit")

\* info.get('longName', info.get('shortName', f'...{stock_code}'))
CompanyName(info, stock_code) ==
    IF "longName" \in DOMAIN info THEN info["longName"]
    ELSE IF "shortName" \in DOMAIN info THEN info["shortName"]
    ELSE "Stock " \o stock_code

\* What the call did, in order: sleeps, and queries to the provider.
Sleep(why, secs, attempt) ==
    [op |-> "sleep", what |-> why, secs |-> secs, attempt |-> attempt]
Query(what, attempt) ==
    [op |-> "query", what |-> what, secs |-> 0, attempt |-> attempt]

\* attempt < max_retries - 1
MayRetry(attempt) == attempt < max_retries - 1

\* a backoff that does not grow
WaitTime_Flat(attempt) == retry_delay

\* wait_time = retry_delay * (attempt + 1)
WaitTime(attempt) == retry_delay * (attempt + 1)

\* a retry wait that grows like the backoff
RetryWait_Growing(attempt) == retry_delay * (attempt + 1)

\* time.sleep(retry_delay) of the other errors
RetryWait(attempt) == retry_delay

\* an empty history that waits before giving up
OnEmptyHistory_Waits(events) ==
    [data |-> EmptyDict, outcome |-> "not_found",
     events |-> Append(events, Sleep("retry", retry_delay, 0))]

\* an empty history returned as a bundle without info
OnEmptyHistory_Bundle(events) ==
    [data |-> [company_name |-> "", info |-> EmptyDict, history |-> "empty"],
     outcome |-> "not_found", events |-> events]

\* hist.empty: st.error(...); return None
OnEmptyHistory(events) ==
    [data |-> EmptyDict, outcome |-> "not_found", events |-> events]

\* One provider answer per attempt, a record
\*   hist   "no_ticker": yf.Ticker() raises Exception(msg) (line 96)
\*          "raise": history() raises Exception(msg) (line 99)
\*          "empty": history() returns an empty frame
\*          "rows" : history() returns rows
\*   msg    the phrases of the exception message (for the two that raise)
\*   info_raises, info   whether stock.info raises, and the dict it returns
\* The result records the returned bundle (EmptyDict stands for None), the
\* return statement that was taken, everything the call did in order, and
\* the number of passes of the loop that were begun.
RECURSIVE FetchLoop(_, _, _, _)
FetchLoop(stock_code, responses, attempt, events) ==
    IF attempt >= max_retries
        THEN [data |-> EmptyDict, outcome |-> "loop_end", events |-> events,
              attempts |-> attempt]
    ELSE
    LET r  == responses[attempt + 1]
        \* time.sleep(1) and stock.history(), reached when yf.Ticker returned
        e1 == IF r.hist = "no_ticker" THEN events
              ELSE events \o << Sleep("courtesy", CourtesyDelay, attempt),
                                Query("history", attempt) >>
    IN
    IF r.hist = "empty"
        THEN LET o == OnEmptyHistory(e1)
             IN  [data |-> o.data, outcome |-> o.outcome, events |-> o.events,
                  attempts |-> attempt + 1]
    ELSE IF r.hist = "rows"
        THEN LET e2   == e1 \o << Sleep("courtesy", CourtesyDelay, attempt),
                                  Query("info", attempt) >>
                 info == IF r.info_raises THEN EmptyDict ELSE r.info
                 company_name ==
                     IF r.info_raises THEN "Stock " \o stock_code
                     ELSE CompanyName(r.info, stock_code)
             IN  [data |-> [company_name |-> company_name,
                            info |-> info,
                            history |-> "rows"],
                  outcome |-> "ok", events |-> e2, attempts |-> attempt + 1]
    ELSE \* except Exception as e
    IF IsRateLimit(r.msg)
        THEN IF MayRetry(attempt)
                 THEN FetchLoop(stock_code, responses, attempt + 1,
                          Append(e1, Sleep("backoff", WaitTime(attempt), attempt)))
                 ELSE [data |-> EmptyDict, outcome |-> "rate_limited",
                       events |-> e1, attempts |-> attempt + 1]
        ELSE IF MayRetry(attempt)
                 THEN FetchLoop(stock_code, responses, attempt + 1,
                          Append(e1, Sleep("retry", RetryWait(attempt), attempt)))
                 ELSE [data |-> EmptyDict, outcome |-> "error", events |-> e1,
                       attempts |-> attempt + 1]

fetch_stock_data(stock_code, responses) ==
    FetchLoop(stock_code, responses, 0, <<>>)

----------------------------------------------------------------------------
(* Clock and its formats *)

MonthsPerYear == 12
TicksPerMonth == 2         \* how many clock values the model tells apart in a month

\* strftime('%Y-%m')
MonthKey(t) ==
    << t \div (MonthsPerYear * TicksPerMonth),
       ((t \div TicksPerMonth) % MonthsPerYear) + 1 >>

\* strftime('%Y-%m-%d %H:%M:%S'): year, month, and the rest of the stamp
DateString(t) == MonthKey(t) \o << t % TicksPerMonth >>

----------------------------------------------------------------------------
(* History store and monthly ranking *)

HistoryCap == 100

\* seq[-n:]
LastN(seq, n) ==
    IF Len(seq) <= n THEN seq ELSE SubSeq(seq, Len(seq) - n + 1, Len(seq))

load_history == history

MakeEntry(stock_code, company_name, score, score_details, now) ==
    [stock_code |-> stock_code,
     company_name |-> company_name,
     score |-> score,
     score_details |-> score_details,
     date |-> DateString(now)]

\* the truncation keeping the first 100 records instead of the last
HistoryAfterSave_KeepOldest(hist, entry) ==
    SubSeq(Append(hist, entry), 1,
           IF Len(hist) + 1 <= HistoryCap THEN Len(hist) + 1 ELSE HistoryCap)

\* history.append(entry); history = history[-100:]
HistoryAfterSave(hist, entry) == LastN(Append(hist, entry), HistoryCap)

\* a merge that takes the right run first among records of equal score
MergeByScore_RightFirst(left, right) ==
    LET posL == [i \in DOMAIN left |->
                    i + Cardinality({ j \in DOMAIN right :
                                        right[j].score >= left[i].score })]
        posR == [j \in DOMAIN right |->
                    j + Cardinality({ i \in DOMAIN left :
                                        left[i].score > right[j].score })]
    IN  [p \in 1..(Len(left) + Len(right)) |->
            IF \E i \in DOMAIN left : posL[i] = p
                THEN left[CHOOSE i \in DOMAIN left : posL[i] = p]
                ELSE right[CHOOSE j \in DOMAIN right : posR[j] = p]]

\* list.sort(key=score, reverse=True) is a stable merge sort.  Merging two
\* runs that are in descending order of score: a record of the left run goes
\* before the records of the right run of the same score.
MergeByScore(left, right) ==
    LET posL == [i \in DOMAIN left |->
                    i + Cardinality({ j \in DOMAIN right :
                                        right[j].score > left[i].score })]
        posR == [j \in DOMAIN right |->
                    j + Cardinality({ i \in DOMAIN left :
                                        left[i].score >= right[j].score })]
    IN  [p \in 1..(Len(left) + Len(right)) |->
            IF \E i \in DOMAIN left : posL[i] = p
                THEN left[CHOOSE i \in DOMAIN left : posL[i] = p]
                ELSE right[CHOOSE j \in DOMAIN right : posR[j] = p]]

RECURSIVE SortRun(_, _, _)
SortRun(seq, lo, hi) ==
    IF lo > hi THEN <<>>
    ELSE IF lo = hi THEN << seq[lo] >>
    ELSE LET mid == (lo + hi) \div 2
         IN  MergeByScore(SortRun(seq, lo, mid), SortRun(seq, mid + 1, hi))

SortByScoreDesc(seq) == SortRun(seq, 1, Len(seq))

\* the bucket with the ticker's old entry left in
WithoutTicker_KeepAll(bucket, stock_code) == bucket

\* [r for r in bucket if r['stock_code'] != stock_code]
WithoutTicker(bucket, stock_code) ==
    SelectSeq(bucket, LAMBDA r : r.stock_code # stock_code)

RankingsAfterUpdate(rk, entry, now) ==
    LET current_month == MonthKey(now)
        old     == IF current_month \in DOMAIN rk THEN rk[current_month] ELSE <<>>
        bucket  == SortByScoreDesc(
                       Append(WithoutTicker(old, entry.stock_code), entry))
    IN  [m \in DOMAIN rk \cup {current_month} |->
            IF m = current_month THEN bucket ELSE rk[m]]

\* load_monthly_ranking, read at clock value now
load_monthly_ranking(now) ==
    IF MonthKey(now) \in DOMAIN rankings THEN rankings[MonthKey(now)] ELSE <<>>

MaxElapsed == 1            \* ticks the clock advances in a behaviour

\* last tick of December of year 0, so that the next tick changes month and year
StartClock == MonthsPerYear * TicksPerMonth - 1

\* What a later datetime.now() can return when an earlier one returned t.
NowAfter(t) == {t} \cup (IF t < StartClock + MaxElapsed THEN {t + 1} ELSE {})

\* save_history, with update_monthly_ranking called at its end, when both
\* files are read and written without an error.  The clock is read once for
\* the entry's date (line 242) and again for the month of the bucket
\* (line 255).
save_history(stock_code, company_name, score, score_details) ==
    \E later \in NowAfter(clock) :
        LET entry == MakeEntry(stock_code, company_name, score, score_details,
                               clock)
        IN  /\ history' = HistoryAfterSave(load_history, entry)
            /\ rankings' = RankingsAfterUpdate(rankings, entry, later)
            /\ clock' = later
            /\ log' = Append(log, [entry |-> entry, bucket |-> MonthKey(later)])
            /\ torn' = torn

\* What can happen to `with open(FILE, 'w') as f: json.dump(..., f)`:
\* the dump completes; open raises and the file stays as it was; or open has
\* emptied the file and the dump raises before the text is complete.
WriteOutcomes == {"written", "refused", "cut"}

\* a file cut short exists and json.load raises on it
Unreadable(bad, file) == file \in bad

\* update_monthly_ranking(entry) with the clock reading `later` and the write
\* ending as rw, on the ranking file rk
UpdateOutcome(rk, bad, entry, later, rw) ==
    IF Unreadable(bad, "ranking")
        THEN [rankings |-> rk, torn |-> bad, raised |-> TRUE]
    ELSE IF rw = "refused"
        THEN [rankings |-> rk, torn |-> bad, raised |-> TRUE]
    ELSE IF rw = "cut"
        THEN [rankings |-> [m \in {} |-> <<>>], torn |-> bad \cup {"ranking"},
              raised |-> TRUE]
    ELSE [rankings |-> RankingsAfterUpdate(rk, entry, later), torn |-> bad,
          raised |-> FALSE]

\* save_history with the history write ending as hw and the ranking write
\* as rw: the files and the clock as the call leaves them, and whether it
\* raised.  No statement of save_history or update_monthly_ranking catches
\* an exception, so the first one that raises ends the call.
SaveOutcome(hist, rk, bad, entry, now, later, hw, rw) ==
    IF Unreadable(bad, "history") \/ hw = "refused"
        THEN [history |-> hist, rankings |-> rk, torn |-> bad, clock |-> now,
              raised |-> TRUE]
    ELSE IF hw = "cut"
        THEN [history |-> <<>>, rankings |-> rk, torn |-> bad \cup {"history"},
              clock |-> now, raised |-> TRUE]
    ELSE LET u == UpdateOutcome(rk, bad, entry, later, rw)
         IN  [history |-> HistoryAfterSave(hist, entry),
              rankings |-> u.rankings, torn |-> u.torn, clock |-> later,
              raised |-> u.raised]

----------------------------------------------------------------------------
(* Main analysis flow (tab1): fetch, stop on failure, score, save *)

\* data is None
IsNone(d) == d = EmptyDict

\* The answers the provider gave to the attempts that were made.
Consumed(responses, attempts) == SubSeq(responses, 1, attempts)

\* if analyze_button and stock_code: ... ; the button press is the action.
Analyze(stock_code, responses) ==
    IF stock_code = ""
        THEN /\ pc' = "no_code"
             /\ UNCHANGED <<clock, history, rankings, data, result, fetched, log, torn>>
    ELSE
    LET f == fetch_stock_data(stock_code, responses) IN
    /\ fetched' = [stock_code |-> stock_code,
                   responses  |-> Consumed(responses, f.attempts),
                   attempts   |-> f.attempts,
                   outcome    |-> f.outcome,
                   events     |-> f.events]
    /\ data' = f.data
    /\ IF IsNone(f.data)
           THEN \* st.stop()
                /\ pc' = "stopped"
                /\ UNCHANGED <<clock, history, rankings, result, log, torn>>
           ELSE LET r == calculate_comprehensive_score(f.data) IN
                /\ result' = r
                /\ save_history(stock_code, f.data["company_name"],
                                r.total, r.details)
                /\ pc' = "done"

\* The same script run on a disk whose writes can fail.  The sidebar reads
\* the history file (line 454) before the tab is reached; an exception that
\* nothing catches ends the run.
AnalyzeOnDisk(stock_code, responses, hw, rw) ==
    IF Unreadable(torn, "history")
        THEN /\ pc' = "crashed"
             /\ UNCHANGED <<clock, history, rankings, data, result, fetched, log,
                            torn>>
    ELSE IF stock_code = ""
        THEN /\ pc' = "no_code"
             /\ UNCHANGED <<clock, history, rankings, data, result, fetched, log,
                            torn>>
    ELSE
    LET f == fetch_stock_data(stock_code, responses) IN
    /\ fetched' = [stock_code |-> stock_code,
                   responses  |-> Consumed(responses, f.attempts),
                   attempts   |-> f.attempts,
                   outcome    |-> f.outcome,
                   events     |-> f.events]
    /\ data' = f.data
    /\ IF IsNone(f.data)
           THEN \* st.stop()
                /\ pc' = "stopped"
                /\ UNCHANGED <<clock, history, rankings, result, log, torn>>
           ELSE LET r == calculate_comprehensive_score(f.data) IN
                /\ result' = r
                /\ \E later \in NowAfter(clock) :
                       LET entry == MakeEntry(stock_code, f.data["company_name"],
                                              r.total, r.details, clock)
                           s == SaveOutcome(history, rankings, torn, entry,
                                            clock, later, hw, rw)
                       IN  /\ history' = s.history
                           /\ rankings' = s.rankings
                           /\ torn' = s.torn
                           /\ clock' = s.clock
                           /\ log' = IF s.raised THEN log
                                     ELSE Append(log, [entry |-> entry,
                                                       bucket |-> MonthKey(later)])
                           /\ pc' = IF s.raised THEN "crashed" ELSE "done"

----------------------------------------------------------------------------
(* Inputs *)

StockCodes == {"7203", "6758"}

\* The scenario of the all-PASS company.
ScenarioInfo ==
    [k \in {"revenueGrowth", "trailingEps", "forwardEps", "totalAssets",
            "operatingCashflow", "totalCash", "returnOnEquity",
            "debtToEquity", "dividendRate", "payoutRatio"} |->
        CASE k = "revenueGrowth"     -> Num(100)
          [] k = "trailingEps"       -> Num(200)
          [] k = "forwardEps"        -> Num(250)
          [] k = "totalAssets"       -> Num(5)
          [] k = "operatingCashflow" -> Num(1)
          [] k = "totalCash"         -> Num(2)
          [] k = "returnOnEquity"    -> Num(90)
          [] k = "debtToEquity"      -> Num(80)
          [] k = "dividendRate"      -> Num(30)
          [] k = "payoutRatio"       -> Num(350)]

ScoredFields == DOMAIN ScenarioInfo

\* The scenario with no debt at all.
WithFieldZeroDebt ==
    [k \in ScoredFields |-> IF k = "debtToEquity" THEN Num(0) ELSE ScenarioInfo[k]]

\* A mapping that is not empty and has none of the scored fields.
NameOnlyInfo == [k \in {"longName"} |-> "Toyota Motor"]

\* The numbers tried for a field: a negative one, zero, and numbers at and
\* next to the thresholds the field is compared with.
FieldNumbers(k) ==
    CASE k = "revenueGrowth"  -> << -10, 0, RevenuePassOver, RevenuePassOver + 1 >>
      [] k = "trailingEps"    -> << -100, 0, 200, 250 >>
      [] k = "forwardEps"     -> << -50, 0, 200, 250 >>
      [] k = "returnOnEquity" -> << -10, 0, RoePassOver, RoePassOver + 1 >>
      [] k = "debtToEquity"   -> << -5, 0, DebtPassUnder - 1, DebtPassUnder >>
      [] k = "payoutRatio"    -> << -100, 0, PayoutPassUpTo, PayoutPassUpTo + 1 >>
      [] OTHER                -> << -1, 0, 1, 5 >>

\* choice 0 is None, choice i is the i-th number of the field
Choices == 0..4
FieldValue(k, choice) ==
    IF choice = 0 THEN NoneVal ELSE Num(FieldNumbers(k)[choice])

MaxVaried == 2             \* fields set away from the base mapping at once

BaseInfos == {EmptyDict, NameOnlyInfo, ScenarioInfo}
FieldSets == { F \in SUBSET ScoredFields : Cardinality(F) <= MaxVaried }

\* base, with every field k of F set to the choice v[k]
Varied(base, F, v) ==
    [k \in DOMAIN base \cup F |->
        IF k \in F THEN FieldValue(k, v[k]) ELSE base[k]]

Answer(hist, msg, info_raises, info) ==
    [hist |-> hist, msg |-> msg, info_raises |-> info_raises, info |-> info]

Raises(msg) == Answer("raise", msg, FALSE, EmptyDict)
TickerRaises(msg) == Answer("no_ticker", msg, FALSE, EmptyDict)
EmptyHistory == Answer("empty", <<>>, FALSE, EmptyDict)
Rows(info) == Answer("rows", <<>>, FALSE, info)
RowsInfoRaises == Answer("rows", <<>>, TRUE, EmptyDict)

ErrorMessages ==
    { <<"429 Client Error:", "Too Many Requests">>,
      <<"Rate limit", "exceeded">>,
      <<"rate limit exceeded">>,
      <<"Read timed out.">> }

\* every way the provider can answer max_retries attempts
Scripts(answers) == [1..max_retries -> answers]

----------------------------------------------------------------------------
(* Specifications *)

NoResult == [total |-> 0, details |-> EmptyDict]
NoFetch == [stock_code |-> "", responses |-> <<>>, attempts |-> 0,
            outcome |-> "none", events |-> <<>>]
NoRankings == [m \in {} |-> <<>>]

Init ==
    /\ clock = StartClock
    /\ history = <<>>
    /\ rankings = NoRankings
    /\ data = EmptyDict
    /\ result = NoResult
    /\ fetched = NoFetch
    /\ log = <<>>
    /\ torn = {}
    /\ pc = "idle"

\* Time passes between requests.
Tick ==
    /\ clock < StartClock + MaxElapsed
    /\ clock' = clock + 1
    /\ UNCHANGED <<history, rankings, data, result, fetched, log, torn, pc>>

(* Spec: the dashboard serving requests. *)

MaxSaves == 2              \* analyses saved in a behaviour of Spec

PipelineAnswers ==
    { Raises(<<"429 Client Error:", "Too Many Requests">>),
      Raises(<<"Read timed out.">>),
      TickerRaises(<<"429 Client Error:", "Too Many Requests">>),
      TickerRaises(<<"Read timed out.">>),
      EmptyHistory, RowsInfoRaises, Rows(ScenarioInfo), Rows(NameOnlyInfo) }

\* The user presses the button; the provider answers every attempt alike.
Request ==
    /\ Len(log) < MaxSaves
    /\ \E stock_code \in StockCodes \cup {""}, a \in PipelineAnswers :
           Analyze(stock_code, [i \in 1..max_retries |-> a])

Next == Tick \/ Request

Spec == Init /\ [][Next]_vars

(* SpecFetch: fetch_stock_data against every script of provider answers. *)

FetchAnswers ==
    { Raises(m) : m \in ErrorMessages }
        \cup { TickerRaises(m) : m \in ErrorMessages }
        \cup { EmptyHistory, RowsInfoRaises, Rows(ScenarioInfo), Rows(NameOnlyInfo) }

Fetch ==
    /\ pc = "idle"
    /\ \E stock_code \in StockCodes, responses \in Scripts(FetchAnswers) :
           LET f == fetch_stock_data(stock_code, responses) IN
           /\ fetched' = [stock_code |-> stock_code,
                          responses  |-> Consumed(responses, f.attempts),
                          attempts   |-> f.attempts,
                          outcome    |-> f.outcome,
                          events     |-> f.events]
           /\ data' = f.data
    /\ pc' = "fetched"
    /\ UNCHANGED <<clock, history, rankings, result, log, torn>>

NextFetch == Fetch

SpecFetch == Init /\ [][NextFetch]_vars

(* SpecScore: one scoring, and one whole analysis, of every info mapping. *)

\* Bundles no fetch returns: None, and a bundle without info.
BareInputs ==
    { EmptyDict,
      [k \in {"company_name"} |-> "Stock 7203"],
      [company_name |-> "Stock 7203", info |-> NoneVal, history |-> "rows"] }

ScoreOnly ==
    /\ pc = "idle"
    /\ \/ \E d \in BareInputs :
              /\ data' = d
              /\ result' = calculate_comprehensive_score(d)
       \/ \E base \in BaseInfos, F \in FieldSets :
              \E v \in [F -> Choices] :
                  LET d == [company_name |-> "Stock 7203",
                            info |-> Varied(base, F, v),
                            history |-> "rows"]
                  IN  /\ data' = d
                      /\ result' = calculate_comprehensive_score(d)
    /\ pc' = "scored"
    /\ UNCHANGED <<clock, history, rankings, fetched, log, torn>>

AnalyzeOnce ==
    /\ pc = "idle"
    /\ \E base \in BaseInfos, F \in FieldSets :
           \E v \in [F -> Choices] :
               Analyze("7203", [i \in 1..max_retries |-> Rows(Varied(base, F, v))])

NextScore == ScoreOnly \/ AnalyzeOnce

SpecScore == Init /\ [][NextScore]_vars

(* SpecRank: save_history called with every ticker and score. *)

MaxRanked == 3             \* calls of save_history in a behaviour of SpecRank

RankCodes == {"7203", "6758", "7974"}

SaveCall(scores) ==
    /\ Len(log) < MaxRanked
    /\ \E stock_code \in RankCodes, score \in scores :
           save_history(stock_code, "Stock " \o stock_code, score, EmptyDict)
    /\ pc' = "saved"
    /\ UNCHANGED <<data, result, fetched>>

SaveRanked == SaveCall({30, 60, 90})

NextRank == Tick \/ SaveRanked

SpecRank == Init /\ [][NextRank]_vars

(* SpecAgain: save_history called again and again for the same tickers. *)

SaveAgain == SaveCall({40, 70})

NextAgain == Tick \/ SaveAgain

SpecAgain == Init /\ [][NextAgain]_vars

(* SpecHist: save_history called with one new ticker after another. *)

MaxAppends == 105          \* calls of save_history in a behaviour of SpecHist

InitHist ==
    /\ clock = StartClock + MaxElapsed
    /\ history = <<>>
    /\ rankings = NoRankings
    /\ data = EmptyDict
    /\ result = NoResult
    /\ fetched = NoFetch
    /\ log = <<>>
    /\ torn = {}
    /\ pc = "idle"

SaveSequential ==
    /\ Len(log) < MaxAppends
    /\ LET stock_code == ToString(7203 + Len(log)) IN
       save_history(stock_code, "Stock " \o stock_code, NeutralScore, NoteDetails)
    /\ pc' = "saved"
    /\ UNCHANGED <<data, result, fetched>>

NextHist == SaveSequential

SpecHist == InitHist /\ [][NextHist]_vars

(* SpecDisk: the dashboard on a disk whose writes can fail. *)

MaxKept == 2               \* records in the history file before requests end

DiskAnswers ==
    { Raises(<<"Read timed out.">>), TickerRaises(<<"Read timed out.">>),
      EmptyHistory, RowsInfoRaises,
      Rows(ScenarioInfo) }

RequestOnDisk ==
    /\ Len(history) < MaxKept
    /\ \E stock_code \in StockCodes \cup {""}, a \in DiskAnswers,
          hw \in WriteOutcomes, rw \in WriteOutcomes :
           AnalyzeOnDisk(stock_code, [i \in 1..max_retries |-> a], hw, rw)

NextDisk == Tick \/ RequestOnDisk

SpecDisk == Init /\ [][NextDisk]_vars

----------------------------------------------------------------------------
(* Properties of the scoring engine, under SpecScore *)

Scored == pc \in {"scored", "done"}

InfoOf(d) == Get(d, "info")

\* The table of criteria.  A field is present when it is not None and, where
\* zero is not a meaningful value of it, not zero.  Zero is a meaningful
\* debtToEquity (no debt), and of no other field.
Present(x) == x # NoneVal /\ x[1] # 0

TablePoints(info, key) ==
    LET growth  == Get(info, "revenueGrowth")
        eps     == Get(info, "trailingEps")
        forward == Get(info, "forwardEps")
        roe     == Get(info, "returnOnEquity")
        debt    == Get(info, "debtToEquity")
        payout  == Get(info, "payoutRatio")
        Positive(x) == IF Present(x) /\ x[1] > 0 THEN 10 ELSE 0
    IN
    CASE key = "revenue" ->
             IF Present(growth) /\ growth[1] > 50 THEN 15
             ELSE IF Present(growth) /\ growth[1] > 0 THEN 8 ELSE 0
      [] key = "eps" ->
             IF Present(eps) /\ Present(forward) /\ forward[1] > eps[1] THEN 15
             ELSE IF Present(eps) /\ eps[1] > 0 THEN 8 ELSE 0
      [] key = "assets"       -> Positive(Get(info, "totalAssets"))
      [] key = "operating_cf" -> Positive(Get(info, "operatingCashflow"))
      [] key = "cash"         -> Positive(Get(info, "totalCash"))
      [] key = "roe" ->
             IF Present(roe) /\ roe[1] > 70 THEN 10
             ELSE IF Present(roe) /\ roe[1] > 0 THEN 5 ELSE 0
      [] key = "equity_ratio" ->
             IF debt # NoneVal /\ debt[1] < 100 THEN 10
             ELSE IF debt # NoneVal THEN 5 ELSE 0
      [] key = "dividend"     -> Positive(Get(info, "dividendRate"))
      [] key = "payout_ratio" ->
             IF Present(payout) /\ payout[1] <= 400 THEN 10
             ELSE IF Present(payout) THEN 5 ELSE 0

\* C1: for every non-empty info mapping each of the nine criteria gets the
\* points of the table, the first matching tier winning, and the all-PASS
\* scenario totals 100.
C1_PointsFollowTable ==
    (Scored /\ DOMAIN InfoOf(data) # {}) =>
        /\ DOMAIN result.details = CriteriaKeys
        /\ \A key \in CriteriaKeys :
               result.details[key].score = TablePoints(data["info"], key)
        /\ (data["info"] = ScenarioInfo => result.total = 100)

\* The all-PASS scenario with debtToEquity set to zero still totals 100.
C1_Witness ==
    /\ Scored
    /\ DOMAIN InfoOf(data) = ScoredFields
    /\ data["info"] = WithFieldZeroDebt
    /\ result.total = 100
    /\ result.details["equity_ratio"].score = 10

\* The records kept: those of the history log and of every ranking bucket.
StoredRecords ==
    { history[i] : i \in DOMAIN history }
        \cup UNION { { rankings[m][i] : i \in DOMAIN rankings[m] } :
                     m \in DOMAIN rankings }

\* The points of a breakdown: the score of each criterion entry; the note
\* entry is a text and carries no points.
RECURSIVE BreakdownPoints(_, _)
BreakdownPoints(details, keys) ==
    IF keys = {} THEN 0
    ELSE LET k == CHOOSE x \in keys : TRUE
         IN  (IF k = "note" THEN 0 ELSE details[k].score)
                 + BreakdownPoints(details, keys \ {k})

\* C2 as stated: every stored record has 0 <= score <= 100 and its score is
\* the sum of the points of its breakdown, whatever info the fetch returned.
C2_ScoreIsSumOfBreakdown ==
    \A r \in StoredRecords :
        /\ 0 <= r.score /\ r.score <= 100
        /\ r.score = BreakdownPoints(r.score_details, DOMAIN r.score_details)

\* C2 amended: every stored record has 0 <= score <= 100; its score is the
\* sum of the points of its breakdown when the info mapping was not empty,
\* and is 50 with the single note entry as breakdown when it was empty.
C2_ScoreIsSumUnlessNoInfo ==
    \A r \in StoredRecords :
        /\ 0 <= r.score /\ r.score <= 100
        /\ IF DOMAIN InfoOf(data) # {}
               THEN /\ DOMAIN r.score_details = CriteriaKeys
                    /\ r.score = BreakdownPoints(r.score_details,
                                                 DOMAIN r.score_details)
               ELSE /\ r.score = 50
                    /\ DOMAIN r.score_details = {"note"}

\* A record of a company that passes some criteria and fails others is in
\* the history log and in a ranking bucket.
C2_Witness ==
    /\ pc = "done"
    /\ Len(history) = 1
    /\ history[1].score = 85
    /\ history[1].score_details["roe"].score = 5
    /\ \E m \in DOMAIN rankings : rankings[m] = <<history[1]>>

\* C3: when the bundle or its info mapping is empty or absent, the total is
\* 50 and the breakdown is the single note entry: no criterion is in it.
C3_NeutralWithoutInfo ==
    (Scored /\ DOMAIN InfoOf(data) = {}) =>
        /\ result.total = 50
        /\ DOMAIN result.details = {"note"}
        /\ DOMAIN result.details \cap CriteriaKeys = {}

\* A fetch returned a bundle whose info mapping is empty, and it was scored 50.
C3_Witness ==
    /\ pc = "done"
    /\ DOMAIN data = {"company_name", "info", "history"}
    /\ DOMAIN data["info"] = {}
    /\ result.total = 50
    /\ DOMAIN result.details = {"note"}

----------------------------------------------------------------------------
(* Properties of the history log, under SpecHist *)

Min(a, b) == IF a <= b THEN a ELSE b

\* the last n of the entries handed to save_history, in the order of the calls
LastSaved(n) == [i \in 1..n |-> log[Len(log) - n + i].entry]

\* C4: after any number of save_history calls the history log has at most
\* 100 records and is the last min(n, 100) records appended, in the order
\* they were appended; after 105 appends it is records 6..105.
C4_HistoryIsLast100 ==
    /\ Len(history) <= 100
    /\ history = LastSaved(Min(Len(log), 100))
    /\ (Len(log) = 105 =>
            /\ history[1] = log[6].entry
            /\ history[100] = log[105].entry)

\* 105 records were appended and the first five were dropped.
C4_Witness ==
    /\ Len(log) = 105
    /\ Len(history) = 100
    /\ history[1].stock_code = log[6].entry.stock_code
    /\ history[1].stock_code # log[1].entry.stock_code

----------------------------------------------------------------------------
(* Properties of the monthly ranking, under SpecAgain and SpecRank *)

\* the calls of save_history that put a record of the ticker in bucket m
Submissions(m, stock_code) ==
    { i \in DOMAIN log :
        log[i].bucket = m /\ log[i].entry.stock_code = stock_code }

Latest(S) == CHOOSE i \in S : \A j \in S : j <= i

\* C5: no bucket has two records of one ticker, and the record of a ticker
\* in a bucket is the one submitted last for that ticker in that month.
C5_OneLatestRecordPerTicker ==
    \A m \in DOMAIN rankings :
        /\ \A i, j \in DOMAIN rankings[m] :
               rankings[m][i].stock_code = rankings[m][j].stock_code => i = j
        /\ \A i \in DOMAIN rankings[m] :
               LET S == Submissions(m, rankings[m][i].stock_code)
               IN  S # {} /\ rankings[m][i] = log[Latest(S)].entry
        /\ \A k \in DOMAIN log :
               log[k].bucket = m =>
                   \E i \in DOMAIN rankings[m] :
                       rankings[m][i].stock_code = log[k].entry.stock_code

\* Ticker 7203 was submitted with score 40 and then with score 70 in one
\* month, and the bucket has one record of it, with score 70.
C5_Witness ==
    /\ Len(log) = 2
    /\ log[1].entry.stock_code = "7203" /\ log[1].entry.score = 40
    /\ log[2].entry.stock_code = "7203" /\ log[2].entry.score = 70
    /\ log[1].bucket = log[2].bucket
    /\ Len(rankings[log[2].bucket]) = 1
    /\ rankings[log[2].bucket][1].score = 70

\* C6: every bucket is in order of score, highest first, and records of
\* equal score are in the order they were put in the bucket; scores 30, 90,
\* 60 of three tickers A, B, C are viewed as B, C, A.
C6_SortedByScoreStable ==
    /\ \A m \in DOMAIN rankings :
           \A i, j \in DOMAIN rankings[m] :
               i < j =>
                   /\ rankings[m][i].score >= rankings[m][j].score
                   /\ rankings[m][i].score = rankings[m][j].score =>
                          Latest(Submissions(m, rankings[m][i].stock_code))
                              < Latest(Submissions(m, rankings[m][j].stock_code))
    /\ ( /\ Len(log) = 3
         /\ \A i \in 1..3 : log[i].bucket = MonthKey(clock)
         /\ Cardinality({ log[i].entry.stock_code : i \in 1..3 }) = 3
         /\ log[1].entry.score = 30
         /\ log[2].entry.score = 90
         /\ log[3].entry.score = 60 )
       => load_monthly_ranking(clock)
              = << log[2].entry, log[3].entry, log[1].entry >>

\* Three tickers with scores 60, 90, 60 in one month: the two records of
\* score 60 are below the 90, the one put in first above the other.
C6_Witness ==
    /\ Len(log) = 3
    /\ \A i \in 1..3 : log[i].bucket = MonthKey(clock)
    /\ Cardinality({ log[i].entry.stock_code : i \in 1..3 }) = 3
    /\ log[1].entry.score = 60
    /\ log[2].entry.score = 90
    /\ log[3].entry.score = 60
    /\ load_monthly_ranking(clock) = << log[2].entry, log[1].entry, log[3].entry >>

----------------------------------------------------------------------------
(* Properties of the fetcher, under SpecFetch *)

\* the attempt ended in an exception of the provider
Raised(answer) == answer.hist \in {"raise", "no_ticker"}

\* the error tells of rate limiting
RateLimitSignature(answer) ==
    /\ Raised(answer)
    /\ \E i \in DOMAIN answer.msg :
           answer.msg[i] \in {"Too Many Requests", "Rate limit"}

OtherError(answer) == Raised(answer) /\ ~RateLimitSignature(answer)

\* the waits between attempts (the courtesy delays left out), in order
WaitEvents(events) ==
    SelectSeq(events, LAMBDA e : e.op = "sleep" /\ e.what # "courtesy")
Waits(events) == [i \in DOMAIN WaitEvents(events) |-> WaitEvents(events)[i].secs]

Fetched == pc = "fetched"
Answers == fetched.responses

\* the number of attempts: the passes of the loop that were begun
Attempts == fetched.attempts
FetchFailed == data = EmptyDict

\* C7: rate-limit errors on the first k <= 2 attempts and then price rows:
\* the fetch succeeds after k + 1 attempts and k waits of 2, ..., 2k; three
\* rate-limit errors: the fetch fails after 3 attempts and the waits 2, 4.
C7_RateLimitBackoff ==
    Fetched =>
        /\ \A k \in 0..2 :
               ( /\ Len(Answers) = k + 1
                 /\ \A i \in 1..k : RateLimitSignature(Answers[i])
                 /\ Answers[k + 1].hist = "rows" )
               => /\ ~FetchFailed
                  /\ Attempts = k + 1
                  /\ Waits(fetched.events) = [i \in 1..k |-> 2 * i]
        /\ ( /\ Len(Answers) >= 3
             /\ \A i \in 1..3 : RateLimitSignature(Answers[i]) )
           => /\ FetchFailed
              /\ Attempts = 3
              /\ Waits(fetched.events) = <<2, 4>>

\* Two rate-limit errors, then rows: success after the waits 2 and 4.
C7_Witness ==
    /\ Fetched
    /\ Len(Answers) = 3
    /\ RateLimitSignature(Answers[1])
    /\ RateLimitSignature(Answers[2])
    /\ Answers[3].hist = "rows"
    /\ ~FetchFailed
    /\ Waits(fetched.events) = <<2, 4>>

\* C8: an empty price history on any attempt ends the fetch at once with a
\* failure: it is the last attempt, and nothing (no wait, no query) follows
\* the query that returned it.
C8_EmptyHistoryFailsAtOnce ==
    Fetched =>
        \A i \in DOMAIN Answers :
            Answers[i].hist = "empty" =>
                /\ FetchFailed
                /\ fetched.outcome = "not_found"
                /\ i = Len(Answers)
                /\ Attempts = i
                /\ fetched.events[Len(fetched.events)] = Query("history", i - 1)
                /\ Len(Waits(fetched.events)) = i - 1

\* An error on the first attempt, an empty history on the second.
C8_Witness ==
    /\ Fetched
    /\ Len(Answers) = 2
    /\ Answers[1].hist = "raise"
    /\ Answers[2].hist = "empty"
    /\ FetchFailed
    /\ Len(Waits(fetched.events)) = 1

OnlyOtherErrors ==
    /\ Fetched
    /\ Answers # <<>>
    /\ \A i \in DOMAIN Answers : OtherError(Answers[i])

\* C9 as stated: an error without the rate-limit signature on every attempt
\* is retried once, at most 2 attempts in all, each retry after a wait of 2,
\* and the fetch fails.
C9_OtherErrorRetriedOnce ==
    OnlyOtherErrors =>
        /\ FetchFailed
        /\ Attempts <= 2
        /\ \A i \in DOMAIN Waits(fetched.events) : Waits(fetched.events)[i] = 2

\* C9 amended: an error without the rate-limit signature on every attempt is
\* retried twice, 3 attempts in all, each retry after a wait of 2, and the
\* fetch fails.
C9_OtherErrorRetriedTwice ==
    OnlyOtherErrors =>
        /\ FetchFailed
        /\ Attempts = 3
        /\ Waits(fetched.events) = <<2, 2>>

\* Three timeouts: three attempts and two waits of 2.
C9_Witness ==
    /\ OnlyOtherErrors
    /\ Len(Answers) = 3
    /\ FetchFailed
    /\ fetched.outcome = "error"
    /\ Waits(fetched.events) = <<2, 2>>

----------------------------------------------------------------------------
(* Properties of the analysis flow, under Spec *)

\* the request just served got no price rows from the provider
FetchJustFailed ==
    /\ fetched'.responses # <<>>
    /\ fetched'.responses[Len(fetched'.responses)].hist # "rows"

\* C10: a request whose fetch fails (no history, rate limit, other error)
\* scores nothing and leaves the history store and the ranking store as
\* they were.
C10_FailedFetchPersistsNothing ==
    [][FetchJustFailed =>
           /\ history' = history
           /\ rankings' = rankings
           /\ result' = result
           /\ log' = log]_vars

\* A request failed on the rate limit after another one had been saved: the
\* stores still hold that one record.
C10_Witness ==
    /\ pc = "stopped"
    /\ fetched.outcome = "rate_limited"
    /\ Len(log) = 1
    /\ history = << log[1].entry >>
    /\ rankings[log[1].bucket] = << log[1].entry >>

----------------------------------------------------------------------------
(* Properties of the two clock reads of a save, under Spec *)

\* the YYYY-MM prefix of a record's own timestamp
MonthOf(entry) == SubSeq(entry.date, 1, 2)

\* a save has just run: its record is the newest one submitted
JustSaved == Len(log') = Len(log) + 1

\* the months whose bucket differs after the step, created ones included
BucketsChanged ==
    { m \in DOMAIN rankings' :
          m \notin DOMAIN rankings \/ rankings'[m] # rankings[m] }

\* C11: whatever the clock reads at the moment of the update, the record
\* goes into the bucket of the month of its own timestamp, and no other
\* bucket is modified.
C11_BucketOfRecordMonth ==
    [][JustSaved =>
           LET entry == log'[Len(log')].entry
           IN  /\ MonthOf(entry) \in DOMAIN rankings'
               /\ \E i \in DOMAIN rankings'[MonthOf(entry)] :
                      rankings'[MonthOf(entry)][i] = entry
               /\ BucketsChanged \subseteq { MonthOf(entry) }]_vars

----------------------------------------------------------------------------
(* Properties of the two stores together, under SpecDisk *)

\* a step of a request, not of the clock
Served ==
    <<history, rankings, data, result, fetched, log, torn, pc>>' #
        <<history, rankings, data, result, fetched, log, torn, pc>>

\* save_history has just returned or raised
SaveEnded ==
    /\ Served
    /\ ~Unreadable(torn, "history")
    /\ pc' \in {"done", "crashed"}

\* the record that call was to save
Submitted ==
    MakeEntry(fetched'.stock_code, data'["company_name"], result'.total,
              result'.details, clock)

\* the record is in the history file
InHistory(entry, hist) == \E i \in DOMAIN hist : hist[i] = entry

\* the record is in the bucket of a month of the ranking file
InRanking(entry, rk) ==
    \E m \in DOMAIN rk : \E i \in DOMAIN rk[m] : rk[m][i] = entry

\* C12: once save_history has returned or raised, also when a write of
\* either store has failed, the record is in the history log if and only if
\* it is in the ranking (the month is left open here: which month's bucket
\* receives the record is the subject of C11).
C12_BothStoresOrNeither ==
    [][SaveEnded =>
           (InHistory(Submitted, history') <=> InRanking(Submitted, rankings'))]_vars

=============================================================================
